---- MODULE Spec2Model ----
(***************************************************************************)
(* Model of the stress/rest energy logger.                                 *)
(*                                                                         *)
(*   main.py          : the Phase Controller (main) and the background     *)
(*                      Sampler thread, sharing the CSV sink, the load     *)
(*                      annotation and the stop event.   Specification Spec*)
(*   energy_logger.py : read_voltage_current (the sensor parser) and the   *)
(*                      duration-bounded loop measure_energy_to_csv.       *)
(*                      Specification SpecE                                *)
(*                                                                         *)
(* Numbers: clock readings, voltages and currents are integers (whole      *)
(* units); Python floats holding them are formatted as Python formats an   *)
(* integral float.  Optional values (None) are the empty tuple, a present  *)
(* value x is <<x>>.  CSV fields are strings, "" being the empty field.    *)
(***************************************************************************)
EXTENDS Integers, Sequences, FiniteSets, TLC

\* ------------------------------------------------------------------ bounds
\* sensor readings the Sampler thread gets; the next read never returns
MaxTicks == 1
\* last reading of the wall clock (time.time) in Spec
MaxClock == 1
\* the same two bounds in SpecT, where the Sampler thread gets further
MaxTicksT == 2
MaxClockT == 2
\* samples measure_energy_to_csv takes; the next sensor read never returns
MaxSamples == 3
\* longest measurement (duration_minutes * 60), in clock units
MaxDuration == 3
\* longest --levels string, in characters
MaxArgLen == 5

\* the lists of levels given to main: none or one ...
LevelLists == {<<>>, <<50>>}
\* ... and, for the protocol as a whole, also two levels and a duplicate
ProtocolLevelLists == {<<>>, <<50>>, <<0, 50>>, <<50, 50>>}
\* Sampler.interval, in clock units
Intervals == {1}
\* the numbers the sensor command prints
SensorNums == {-1, 2}

\* ------------------------------------------------------------ Python values
None == <<>>
Some(x) == <<x>>
Val(o) == o[1]

\* f"{x:.3f}" of an integral float
Fmt3(x) == ToString(x) \o ".000"
\* f"{x:.6f}" of an integral float
Fmt6(x) == ToString(x) \o ".000000"
\* str() of an integral float, as csv.writer writes a float field
FloatStr(x) == ToString(x) \o ".0"
\* datetime.isoformat(timespec="milliseconds") of a whole-second instant
IsoMs(t) == "T" \o ToString(t) \o ".000"

\* ------------------------------------------------- energy_logger.py: sensor
\* One line of the output of `vcgencmd pmic_read_adc`: which label it holds
\* and what follows its first '='.
\*   rhs.kind = "noeq" : the line has no '='      (split('=')[1] -> IndexError)
\*   rhs.kind = "junk" : the text is no number    (float() -> ValueError)
\*   rhs.kind = "num"  : the number rhs.num followed by the unit rhs.unit
RhsSet(nums) ==
    {[kind |-> "noeq", num |-> 0, unit |-> ""], [kind |-> "junk", num |-> 0, unit |-> ""]}
    \cup {[kind |-> "num", num |-> n, unit |-> u] : n \in nums, u \in {"V", "A"}}

SensorLines(nums) == [label : {"VDD_CORE_V", "VDD_CORE_A", "OTHER"}, rhs : RhsSet(nums)]

\* the standard output of the command: up to two lines
SensorOutputs(nums) ==
    {<<>>} \cup {<<a>> : a \in SensorLines(nums)}
           \cup {<<a, b>> : a, b \in SensorLines(nums)}

\* float(line.split('=')[1].replace(unit, '').strip())
\*   "index" : IndexError (not caught by read_voltage_current)
\*   "value" : ValueError (caught: the field keeps its previous value)
ParseField(rhs, unit) ==
    IF rhs.kind = "noeq" THEN [err |-> "index", val |-> None]
    ELSE IF rhs.kind = "junk" \/ rhs.unit # unit THEN [err |-> "value", val |-> None]
    ELSE [err |-> "none", val |-> Some(rhs.num)]

\* the for loop of read_voltage_current from line k on
RECURSIVE ParseLines(_, _, _, _)
ParseLines(lines, k, voltage, current) ==
    IF k > Len(lines) THEN [raised |-> FALSE, v |-> voltage, i |-> current]
    ELSE LET line == lines[k]
             pv == ParseField(line.rhs, "V")
             pa == ParseField(line.rhs, "A")
         IN IF line.label = "VDD_CORE_V"
            THEN IF pv.err = "index" THEN [raised |-> TRUE, v |-> None, i |-> None]
                 ELSE ParseLines(lines, k + 1,
                                 IF pv.err = "none" THEN pv.val ELSE voltage, current)
            ELSE IF line.label = "VDD_CORE_A"
            THEN IF pa.err = "index" THEN [raised |-> TRUE, v |-> None, i |-> None]
                 ELSE ParseLines(lines, k + 1, voltage,
                                 IF pa.err = "none" THEN pa.val ELSE current)
            ELSE ParseLines(lines, k + 1, voltage, current)

\* read_voltage_current() on the command's output
read_voltage_current(out) == ParseLines(out, 1, None, None)

\* subprocess.run itself raising (vcgencmd not installed: FileNotFoundError)
SpawnFailure == [raised |-> TRUE, v |-> None, i |-> None]

\* every outcome of one call of read_voltage_current
SensorResults(nums) ==
    {read_voltage_current(out) : out \in SensorOutputs(nums)} \cup {SpawnFailure}

\* the outputs the Sampler thread of main.py meets: nothing, a line without
\* '=', the voltage alone, voltage and current
Reading(label, n, unit) == [label |-> label, rhs |-> [kind |-> "num", num |-> n, unit |-> unit]]
SamplerOutputs ==
    { <<>>,
      <<[label |-> "VDD_CORE_V", rhs |-> [kind |-> "noeq", num |-> 0, unit |-> ""]]>>,
      <<Reading("VDD_CORE_V", 2, "V")>>,
      <<Reading("VDD_CORE_V", 2, "V"), Reading("VDD_CORE_A", 2, "A")>> }
SamplerResults == {read_voltage_current(out) : out \in SamplerOutputs}

\* the outcomes measure_energy_to_csv meets
EnergyResults  == SensorResults(SensorNums)

\* ================================================== main.py: parse_levels
\* A string is the sequence of its characters.  The characters of --levels:
\* letters (enough to spell "std", one of them also in upper case), two
\* digits, the two separators and the blank.
Chars == {"s", "t", "d", "S", "5", "0", ":", ",", " "}

ArgStrings == UNION {[1..n -> Chars] : n \in 0..MaxArgLen}

\* str.lower() and str.strip(), on these characters
Lower(c) == IF c = "S" THEN "s" ELSE c
LowerStr(str) == [k \in 1..Len(str) |-> Lower(str[k])]

RECURSIVE StripLeft(_)
StripLeft(str) == IF str # <<>> /\ Head(str) = " " THEN StripLeft(Tail(str)) ELSE str
RECURSIVE StripRight(_)
StripRight(str) ==
    IF str # <<>> /\ str[Len(str)] = " " THEN StripRight(SubSeq(str, 1, Len(str) - 1))
    ELSE str
Strip(str) == StripRight(StripLeft(str))

\* str.split(sep): the pieces between the separators, empty ones included
RECURSIVE SplitFrom(_, _, _, _, _)
SplitFrom(str, sep, k, piece, pieces) ==
    IF k > Len(str) THEN Append(pieces, piece)
    ELSE IF str[k] = sep THEN SplitFrom(str, sep, k + 1, <<>>, Append(pieces, piece))
    ELSE SplitFrom(str, sep, k + 1, Append(piece, str[k]), pieces)
Split(str, sep) == SplitFrom(str, sep, 1, <<>>, <<>>)

IsDigit(c) == c \in {"0", "5"}
Digit(c) == IF c = "5" THEN 5 ELSE 0
RECURSIVE DigitsValue(_, _)
DigitsValue(str, n) == IF n = 0 THEN 0 ELSE 10 * DigitsValue(str, n - 1) + Digit(str[n])

\* int(x): blanks around the digits are accepted, anything else is a
\* ValueError (err)
int(x) ==
    LET digits == Strip(x)
    IN IF digits = <<>> \/ \E k \in 1..Len(digits) : ~IsDigit(digits[k])
       THEN [err |-> TRUE, val |-> 0]
       ELSE [err |-> FALSE, val |-> DigitsValue(digits, Len(digits))]

\* list(range(a, stop, step)) for step # 0
RECURSIVE range(_, _, _)
range(a, stop, step) ==
    IF (step > 0 /\ a >= stop) \/ (step < 0 /\ a <= stop) THEN <<>>
    ELSE <<a>> \o range(a + step, stop, step)

Keywords == { <<"d", "e", "f", "a", "u", "l", "t">>, <<"s", "t", "d">>,
              <<"s", "t", "a", "n", "d", "a", "r", "d">> }
DefaultLevels == <<0, 10, 20, 30, 40, 50, 60, 70, 80, 90, 100>>

Returned(list) == [raised |-> FALSE, list |-> list]
ValueError == [raised |-> TRUE, list |-> <<>>]

NonBlank(x) == Strip(x) # <<>>

\* line 177: [int(x) for x in s.split(",") if x.strip() != ""]
CommaList(str) ==
    LET items == SelectSeq(Split(str, ","), NonBlank)
    IN IF \E k \in 1..Len(items) : int(items[k]).err THEN ValueError
       ELSE Returned([k \in 1..Len(items) |-> int(items[k]).val])

\* parse_levels(s), lines 169-177
parse_levels(arg) ==
    LET str   == LowerStr(Strip(arg))
        parts == Split(str, ":")
    IN IF str \in Keywords THEN Returned(DefaultLevels)
       ELSE IF \E k \in 1..Len(str) : str[k] = ":"
       THEN IF \E k \in 1..Len(parts) : int(parts[k]).err THEN ValueError
            ELSE IF Len(parts) = 3
            THEN IF int(parts[3]).val = 0 THEN ValueError
                 ELSE Returned(range(int(parts[1]).val, int(parts[2]).val + 1,
                                     int(parts[3]).val))
            ELSE CommaList(str)
       ELSE CommaList(str)

\* the --levels strings behind the lists of levels of Spec and SpecP
LevelArgs == { <<>>, <<"5", "0">>, <<"0", ",", "5", "0">>, <<"5", "0", ",", "5", "0">> }

\* ======================================================== main.py: state
VARIABLES
    \* inputs and environment
    args_levels, \* args.levels, the --levels string, as its sequence of characters
    levels,      \* parse_levels(args.levels)
    interval,    \* Sampler.interval
    clock,       \* time.time(), in whole units
    diskFull,    \* the output device accepts no more data (writes raise OSError)
    \* Sampler object
    stop_event,  \* Sampler.stop_event
    lock,        \* holder of Sampler._lock: "free", "ctrl" or "sampler"
    _load,       \* Sampler._load
    rows,        \* the rows handed to Sampler._csv, in stream order
    flushedLen,  \* how many of them Sampler._fh has flushed to the file
    fh,          \* Sampler._fh: "unopened", "open" or "closed"
    closes,      \* number of times Sampler._fh.close() ran
    \* main thread (the Phase Controller)
    pcC,         \* line of main being executed
    cOp,         \* position inside the call that line makes
    li,          \* index in levels of the for loop's lvl
    mark_now,    \* now of mark()
    mark_ts,     \* ts of mark()
    exc,         \* exception propagating out of the try block
    exitCode,    \* exit status of the process, once pcC = "exited"
    \* Sampler thread (run)
    pcS,         \* line of Sampler.run being executed
    next_t, now, ts, load, v, i, p,
    wake,        \* clock reading at which time.sleep returns
    ticks,       \* sensor readings taken so far
    \* history (not program state)
    rowInfo,     \* per row: who wrote it and which set_load calls preceded it
    ctrlLog,     \* the calls main has completed, in order
    setLoadLog,  \* the arguments of the completed set_load calls, in order
    hist         \* start      : the first value of next_t (line 95) or of
                 \*              next_tick (energy_logger.py line 48)
                 \* firedAtStop: main reached sampler.stop() (line 226) after
                 \*              the Sampler thread had begun a tick
                 \* rowsAtStop : rows in the stream when stop_event was set

\* ------------------------------------- energy_logger.py: state (SpecE)
VARIABLES
    pcE,                  \* line of measure_energy_to_csv being executed
    perf,                 \* time.perf_counter()
    total_energy_joules, t_end, t_prev, next_tick, sample_idx, now_perf,
    voltage, current,     \* the reading of this tick
    interval_seconds,
    erows,                \* the data rows written, in order
    samples               \* history: per row its reading, now_perf and the accumulator

envVars  == <<args_levels, levels, interval, clock, diskFull>>
sinkVars == <<rows, rowInfo, flushedLen, fh, closes>>
ctrlVars == <<pcC, cOp, li, mark_now, mark_ts, exc, exitCode, ctrlLog, setLoadLog>>
sampVars == <<pcS, next_t, now, ts, load, v, i, p, wake, ticks>>
mainVars == <<envVars, sinkVars, ctrlVars, sampVars, stop_event, lock, _load>>
evars    == <<pcE, perf, total_energy_joules, t_end, t_prev, next_tick, sample_idx,
              now_perf, voltage, current, interval_seconds, erows, samples>>
vars     == <<mainVars, evars, hist>>

\* ------------------------------------------------------- rows of the CSV
Columns == <<"timestamp_iso", "epoch_s", "load_percent", "voltage_v", "current_a",
             "power_w", "marker">>

\* Sampler.__init__: the header row
HeaderRow ==
    [timestamp_iso |-> "timestamp_iso", epoch_s |-> "epoch_s",
     load_percent |-> "load_percent", voltage_v |-> "voltage_v",
     current_a |-> "current_a", power_w |-> "power_w", marker |-> "marker"]

\* (variant: mark also fills in the load column)
MarkerRowWithLoad(t, n, text) ==
    [timestamp_iso |-> t, epoch_s |-> Fmt3(n), load_percent |-> "0", voltage_v |-> "",
     current_a |-> "", power_w |-> "", marker |-> text]

\* Sampler.mark: [ts, f"{now:.3f}", "", "", "", "", text]
MarkerRow(t, n, text) ==
    [timestamp_iso |-> t, epoch_s |-> Fmt3(n), load_percent |-> "", voltage_v |-> "",
     current_a |-> "", power_w |-> "", marker |-> text]

\* Sampler.run: [ts, f"{now:.3f}", load, v or "", i or "", p or "", ""]
DataRow(t, n, l, vv, ii, pp) ==
    [timestamp_iso |-> t, epoch_s |-> Fmt3(n), load_percent |-> ToString(l),
     voltage_v |-> IF vv # None THEN FloatStr(Val(vv)) ELSE "",
     current_a |-> IF ii # None THEN FloatStr(Val(ii)) ELSE "",
     power_w   |-> IF pp # None THEN FloatStr(Val(pp)) ELSE "",
     marker |-> ""]

\* p = v * i if (v is not None and i is not None) else None
Power(vv, ii) == IF vv # None /\ ii # None THEN Some(Val(vv) * Val(ii)) ELSE None

\* a write to the file object: raises when the file is closed (ValueError) or
\* the device is full (OSError)
SinkRaises == fh # "open" \/ diskFull

\* ================================================= main.py: main (Controller)
MarkLines    == {"L205", "L212", "L214", "L218", "L220", "L223"}
SetLoadLines == {"L211", "L217"}
RunCmdLines  == {"L213", "L219"}

\* the level of the current iteration of `for lvl in levels`
Lvl == levels[li]

\* the statement that follows a completed call
NextLine(pc) ==
    CASE pc = "L205" -> "L209"
      [] pc = "L211" -> "L212"
      [] pc = "L212" -> "L213"
      [] pc = "L213" -> "L214"
      [] pc = "L214" -> "L217"
      [] pc = "L217" -> "L218"
      [] pc = "L218" -> "L219"
      [] pc = "L219" -> "L220"
      [] pc = "L220" -> "L209"
      [] pc = "L223" -> "L226"

\* (variant: the two markers of the stress phase exchanged)
MarkTextSwapped(pc, lvl) ==
    CASE pc = "L205" -> "START_PROTOCOL"
      [] pc = "L212" -> "REST_BEGIN_level_" \o ToString(lvl)
      [] pc = "L214" -> "REST_END_level_" \o ToString(lvl)
      [] pc = "L218" -> "STRESS_" \o ToString(lvl) \o "_END"
      [] pc = "L220" -> "STRESS_" \o ToString(lvl) \o "_BEGIN"
      [] pc = "L223" -> "END_PROTOCOL"

\* the text main passes to sampler.mark on line pc
MarkText(pc, lvl) ==
    CASE pc = "L205" -> "START_PROTOCOL"
      [] pc = "L212" -> "REST_BEGIN_level_" \o ToString(lvl)
      [] pc = "L214" -> "REST_END_level_" \o ToString(lvl)
      [] pc = "L218" -> "STRESS_" \o ToString(lvl) \o "_BEGIN"
      [] pc = "L220" -> "STRESS_" \o ToString(lvl) \o "_END"
      [] pc = "L223" -> "END_PROTOCOL"

\* the percentage main passes to sampler.set_load on line pc
SetLoadArg(pc, lvl) == IF pc = "L211" THEN 0 ELSE lvl

\* (variant: the finally block writes the END_PROTOCOL marker before stop())
ThrowToEnd(pc, kind) ==
    /\ pcC' = "L223"
    /\ exc' = kind
    /\ UNCHANGED exitCode

\* (variant: an exception leaves main without running the finally block)
ThrowNoFinally(pc, kind) ==
    /\ pcC' = "exited"
    /\ exitCode' = 1
    /\ exc' = kind

\* where an exception raised on line pc takes main: line 205 is outside the
\* try, so the exception leaves main at once; inside the try the finally
\* block (line 226) runs first
Throw(pc, kind) ==
    IF pc = "L205"
    THEN /\ pcC' = "exited"
         /\ exitCode' = 1
         /\ exc' = kind
    ELSE /\ pcC' = "L226"
         /\ exc' = kind
         /\ UNCHANGED exitCode

Call(op, arg) == [op |-> op, arg |-> arg]

\* the Sampler thread has entered the body of its loop at least once
TickFired == ts # "" \/ pcS \in {"L100", "L102"}

\* the history when main moves to line `pc`: reaching line 226 is the call of
\* sampler.stop()
HistAt(pc) == IF pc = "L226" THEN [hist EXCEPT !.firedAtStop = TickFired] ELSE hist

\* line 200: levels = parse_levels(args.levels); a ValueError leaves main
\* before the Sampler exists
CtrlParseLevels ==
    /\ pcC = "L200"
    /\ IF parse_levels(args_levels).raised
       THEN pcC' = "exited" /\ exitCode' = 1 /\ exc' = "value" /\ levels' = levels
       ELSE pcC' = "L203" /\ levels' = parse_levels(args_levels).list
            /\ UNCHANGED <<exitCode, exc>>
    /\ UNCHANGED <<args_levels, interval, clock, diskFull, sinkVars, cOp, li, mark_now,
                   mark_ts, ctrlLog, setLoadLog, sampVars, stop_event, lock, _load,
                   evars, hist>>

\* line 203: Sampler.__init__ opens the file and writes the header
CtrlConstruct ==
    /\ pcC = "L203"
    /\ pcC' = "L204"
    /\ fh' = "open"
    /\ rows' = <<HeaderRow>>
    /\ rowInfo' = <<[by |-> "init", readAt |-> 0, writtenAt |-> 0, busy |-> FALSE]>>
    /\ UNCHANGED <<envVars, flushedLen, closes, cOp, li, mark_now, mark_ts, exc, exitCode,
                   ctrlLog, setLoadLog, sampVars, stop_event, lock, _load, evars, hist>>

\* line 204: sampler.start()
CtrlStart ==
    /\ pcC = "L204"
    /\ pcC' = "L205"
    /\ pcS' = "L95"
    /\ UNCHANGED <<envVars, sinkVars, cOp, li, mark_now, mark_ts, exc, exitCode, ctrlLog,
                   setLoadLog, next_t, now, ts, load, v, i, p, wake, ticks, stop_event,
                   lock, _load, evars, hist>>

\* line 209: for lvl in levels
CtrlFor ==
    /\ pcC = "L209"
    /\ IF li < Len(levels)
       THEN li' = li + 1 /\ pcC' = "L211"
       ELSE li' = li /\ pcC' = "L223"
    /\ UNCHANGED <<envVars, sinkVars, cOp, mark_now, mark_ts, exc, exitCode, ctrlLog,
                   setLoadLog, sampVars, stop_event, lock, _load, evars, hist>>

\* set_load, line 74: with self._lock
CtrlSetLoadAcquire ==
    /\ pcC \in SetLoadLines /\ cOp = "idle"
    /\ lock = "free"
    /\ lock' = "ctrl"
    /\ cOp' = "locked"
    /\ UNCHANGED <<envVars, sinkVars, pcC, li, mark_now, mark_ts, exc, exitCode, ctrlLog,
                   setLoadLog, sampVars, stop_event, _load, evars, hist>>

\* set_load, line 75: self._load = int(pct), then the lock is released
CtrlSetLoadStore ==
    /\ pcC \in SetLoadLines /\ cOp = "locked"
    /\ _load' = SetLoadArg(pcC, Lvl)
    /\ lock' = "free"
    /\ cOp' = "idle"
    /\ pcC' = NextLine(pcC)
    /\ setLoadLog' = Append(setLoadLog, SetLoadArg(pcC, Lvl))
    /\ ctrlLog' = Append(ctrlLog, Call("set_load", ToString(SetLoadArg(pcC, Lvl))))
    /\ UNCHANGED <<envVars, sinkVars, li, mark_now, mark_ts, exc, exitCode, sampVars,
                   stop_event, evars, hist>>

\* (variant: mark records the time at which the Sampler thread began)
MarkTimeOfStart == hist.start

\* mark, line 82: now = time.time()
MarkTime == clock

\* mark, lines 82-85: now and ts are taken, then writerow is entered
CtrlMarkNow ==
    /\ pcC \in MarkLines /\ cOp = "idle"
    /\ mark_now' = MarkTime
    /\ mark_ts' = IsoMs(clock)
    /\ cOp' = "writerow"
    /\ UNCHANGED <<envVars, sinkVars, pcC, li, exc, exitCode, ctrlLog, setLoadLog,
                   sampVars, stop_event, lock, _load, evars, hist>>

\* what the history keeps of a row written now by `who`, whose load was read
\* when `readAt` set_load calls had completed
Info(who, readAt) ==
    [by |-> who, readAt |-> readAt, writtenAt |-> Len(setLoadLog),
     busy |-> cOp = "locked"]

\* mark, lines 85-86: self._csv.writerow(...) hands the row to the file
\* object and self._fh.flush() writes it out; no lock is taken
CtrlMarkWrite ==
    /\ pcC \in MarkLines /\ cOp = "writerow"
    /\ cOp' = "idle"
    /\ IF SinkRaises
       THEN /\ Throw(pcC, "io")
            /\ UNCHANGED <<rows, rowInfo, flushedLen, ctrlLog>>
       ELSE /\ rows' = Append(rows, MarkerRow(mark_ts, mark_now,
                                              MarkText(pcC, IF li = 0 THEN 0 ELSE Lvl)))
            /\ rowInfo' = Append(rowInfo, Info("ctrl", Len(setLoadLog)))
            /\ flushedLen' = Len(rows) + 1
            /\ pcC' = NextLine(pcC)
            /\ ctrlLog' = Append(ctrlLog,
                                 Call("mark", MarkText(pcC, IF li = 0 THEN 0 ELSE Lvl)))
            /\ UNCHANGED <<exc, exitCode>>
    /\ hist' = HistAt(pcC')
    /\ UNCHANGED <<envVars, fh, closes, li, mark_now, mark_ts, setLoadLog,
                   sampVars, stop_event, lock, _load, evars>>

\* run_cmd, lines 150-158: has_stress_ng() decides between the real Load
\* Generator ("run") and the simulation ("sleep"); either blocks main
CtrlRunCmdStart ==
    /\ pcC \in RunCmdLines /\ cOp = "idle"
    /\ \E has_stress_ng \in BOOLEAN : cOp' = IF has_stress_ng THEN "run" ELSE "sleep"
    /\ UNCHANGED <<envVars, sinkVars, pcC, li, mark_now, mark_ts, exc, exitCode, ctrlLog,
                   setLoadLog, sampVars, stop_event, lock, _load, evars, hist>>

\* run_cmd returns: stress-ng exited with status 0, or the simulated sleep ended
CtrlRunCmdReturn ==
    /\ pcC \in RunCmdLines /\ cOp \in {"run", "sleep"}
    /\ cOp' = "idle"
    /\ pcC' = NextLine(pcC)
    /\ ctrlLog' = Append(ctrlLog, Call("run_cmd", "ok"))
    /\ UNCHANGED <<envVars, sinkVars, li, mark_now, mark_ts, exc, exitCode, setLoadLog,
                   sampVars, stop_event, lock, _load, evars, hist>>

\* run_cmd, line 152: subprocess.run(..., check=True) raises CalledProcessError
\* (only the real stress-ng can fail; the simulation only sleeps)
CtrlRunCmdFail ==
    /\ pcC \in RunCmdLines /\ cOp = "run"
    /\ cOp' = "idle"
    /\ Throw(pcC, "lg")
    /\ ctrlLog' = Append(ctrlLog, Call("run_cmd", "failed"))
    /\ hist' = HistAt(pcC')
    /\ UNCHANGED <<envVars, sinkVars, li, mark_now, mark_ts, setLoadLog, sampVars,
                   stop_event, lock, _load, evars>>

\* the Sampler thread is in a call that can block for longer than join waits
SamplerBlocked == pcS \in {"L100", "L110"}
SamplerEnded   == pcS \in {"done", "dead"}

\* stop, line 140: self.stop_event.set()
CtrlStopSet ==
    /\ pcC = "L226" /\ cOp = "idle"
    /\ stop_event' = TRUE
    /\ cOp' = "join"
    /\ hist' = [hist EXCEPT !.rowsAtStop = Len(rows)]
    /\ UNCHANGED <<envVars, sinkVars, pcC, li, mark_now, mark_ts, exc, exitCode, ctrlLog,
                   setLoadLog, sampVars, lock, _load, evars>>

\* stop, line 141: self.join(timeout=2) returns because the thread has ended
CtrlJoinReturn ==
    /\ pcC = "L226" /\ cOp = "join"
    /\ SamplerEnded
    /\ cOp' = "idle"
    /\ pcC' = "L227"
    /\ ctrlLog' = Append(ctrlLog, Call("stop", "joined"))
    /\ UNCHANGED <<envVars, sinkVars, li, mark_now, mark_ts, exc, exitCode, setLoadLog,
                   sampVars, stop_event, lock, _load, evars, hist>>

\* stop, line 141: self.join(timeout=2) returns because the two seconds are over
CtrlJoinTimeout ==
    /\ pcC = "L226" /\ cOp = "join"
    /\ SamplerBlocked
    /\ cOp' = "idle"
    /\ pcC' = "L227"
    /\ ctrlLog' = Append(ctrlLog, Call("stop", "timeout"))
    /\ UNCHANGED <<envVars, sinkVars, li, mark_now, mark_ts, exc, exitCode, setLoadLog,
                   sampVars, stop_event, lock, _load, evars, hist>>

\* line 227 and the end of main: the pending exception, if any, is re-raised
\* and the interpreter exits (the daemon thread is abandoned)
CtrlExit ==
    /\ pcC = "L227"
    /\ pcC' = "exited"
    /\ exitCode' = IF exc # "none" THEN 1 ELSE 0
    /\ UNCHANGED <<envVars, sinkVars, cOp, li, mark_now, mark_ts, exc, ctrlLog, setLoadLog,
                   sampVars, stop_event, lock, _load, evars, hist>>

\* ================================================ main.py: Sampler.run (thread)
\* Steps of run() that touch nothing the main thread can see or change are
\* taken together with the next step that does.  The clock advances when a
\* blocking call of this thread returns, by the time the call took.

\* the daemon thread runs only while the process lives
Alive == pcC # "exited"

\* line 95: next_t = time.time()
SamplerBegin ==
    /\ Alive /\ pcS = "L95"
    /\ next_t' = clock
    /\ pcS' = "L96"
    /\ hist' = [hist EXCEPT !.start = clock]
    /\ UNCHANGED <<envVars, sinkVars, ctrlVars, now, ts, load, v, i, p, wake, ticks,
                   stop_event, lock, _load, evars>>

\* (variant: the loop never tests the stop event)
SamplerLoopDeaf ==
    /\ Alive /\ pcS = "L96"
    /\ now' = clock
    /\ IF clock < next_t
       THEN wake' = clock + (next_t - clock) /\ pcS' = "L100"
       ELSE wake' = wake /\ pcS' = "L102"
    /\ UNCHANGED <<envVars, sinkVars, ctrlVars, next_t, ts, load, v, i, p, ticks,
                   stop_event, lock, _load, evars, hist>>

\* (variant: the loop also ends after its first tick)
SamplerLoopOnce ==
    /\ Alive /\ pcS = "L96"
    /\ IF stop_event \/ ts # ""
       THEN pcS' = "L133" /\ UNCHANGED <<now, wake>>
       ELSE /\ now' = clock
            /\ IF clock < next_t
               THEN wake' = clock + (next_t - clock) /\ pcS' = "L100"
               ELSE wake' = wake /\ pcS' = "L102"
    /\ UNCHANGED <<envVars, sinkVars, ctrlVars, next_t, ts, load, v, i, p, ticks,
                   stop_event, lock, _load, evars, hist>>

\* lines 96-100: while not self.stop_event.is_set(): now = time.time();
\* if now < next_t: time.sleep(next_t - now)
SamplerLoop ==
    /\ Alive /\ pcS = "L96"
    /\ IF stop_event
       THEN pcS' = "L133" /\ UNCHANGED <<now, wake>>
       ELSE /\ now' = clock
            /\ IF clock < next_t
               THEN wake' = clock + (next_t - clock) /\ pcS' = "L100"
               ELSE wake' = wake /\ pcS' = "L102"
    /\ UNCHANGED <<envVars, sinkVars, ctrlVars, next_t, ts, load, v, i, p, ticks,
                   stop_event, lock, _load, evars, hist>>

\* line 100: time.sleep returns, no earlier than asked
WakeUpTo(maxClock) ==
    /\ Alive /\ pcS = "L100"
    /\ \E t \in clock..maxClock : t >= wake /\ clock' = t
    /\ pcS' = "L102"
    /\ UNCHANGED <<args_levels, levels, interval, diskFull, sinkVars, ctrlVars, next_t, now, ts, load,
                   v, i, p, wake, ticks, stop_event, lock, _load, evars, hist>>

SamplerWake == WakeUpTo(MaxClock)
SamplerWakeT == WakeUpTo(MaxClockT)

\* (variant: the load is not read again, the tick keeps the value it had)
LoadReadStale == [load |-> load.load, readAt |-> Len(setLoadLog)]

\* the local `load` of this tick and the number of set_load calls it follows
LoadRead == [load |-> _load, readAt |-> Len(setLoadLog)]

\* lines 102-106: ts = datetime.now(...).isoformat(...); with self._lock:
\* load = self._load
SamplerReadLoad ==
    /\ Alive /\ pcS = "L102"
    /\ lock = "free"
    /\ ts' = IsoMs(clock)
    /\ load' = LoadRead
    /\ pcS' = "L110"
    /\ UNCHANGED <<envVars, sinkVars, ctrlVars, next_t, now, v, i, p, wake, ticks,
                   stop_event, lock, _load, evars, hist>>

\* lines 109-113: the reading of this tick; a raising read gives (None, None)
SamplerReading(r) == IF r.raised THEN [v |-> None, i |-> None] ELSE [v |-> r.v, i |-> r.i]

\* lines 109-116: v, i = energy_logger.read_voltage_current(); p = v * i or
\* None.  The subprocess takes no or one unit of time; after maxTicks
\* readings it does not return any more.
SenseUpTo(maxTicks, maxClock) ==
    /\ Alive /\ pcS = "L110"
    /\ ticks < maxTicks
    /\ \E r \in SamplerResults :
          /\ v' = SamplerReading(r).v
          /\ i' = SamplerReading(r).i
          /\ p' = Power(SamplerReading(r).v, SamplerReading(r).i)
    /\ \E t \in clock..maxClock : t <= clock + 1 /\ clock' = t
    /\ ticks' = ticks + 1
    /\ pcS' = "L119"
    /\ UNCHANGED <<args_levels, levels, interval, diskFull, sinkVars, ctrlVars, next_t, now, ts, load,
                   wake, stop_event, lock, _load, evars, hist>>

SamplerSense == SenseUpTo(MaxTicks, MaxClock)
SamplerSenseT == SenseUpTo(MaxTicksT, MaxClockT)

\* line 119: self._csv.writerow([...]) is entered; no lock is taken
SamplerWriterowEnter ==
    /\ Alive /\ pcS = "L119"
    /\ pcS' = "L119w"
    /\ UNCHANGED <<envVars, sinkVars, ctrlVars, next_t, now, ts, load, v, i, p, wake,
                   ticks, stop_event, lock, _load, evars, hist>>

\* the row Sampler.run builds on lines 119-127
SamplerRow == DataRow(ts, now, load.load, v, i, p)

\* (variant: the next tick is scheduled from the current time)
ScheduleFromNow(t) == clock + interval

\* line 130: next_t += self.interval
Schedule(t) == t + interval

\* lines 119-130: the row is handed to the file object and the next tick is
\* scheduled; an exception of the write leaves run() (nothing catches it) and
\* the thread ends without closing
SamplerWriterow ==
    /\ Alive /\ pcS = "L119w"
    /\ IF SinkRaises
       THEN /\ pcS' = "dead"
            /\ UNCHANGED <<rows, rowInfo, next_t>>
       ELSE /\ rows' = Append(rows, SamplerRow)
            /\ rowInfo' = Append(rowInfo, Info("sampler", load.readAt))
            /\ next_t' = Schedule(next_t)
            /\ pcS' = "L96"
    /\ UNCHANGED <<envVars, flushedLen, fh, closes, ctrlVars, now, ts, load, v, i,
                   p, wake, ticks, stop_event, lock, _load, evars, hist>>

\* line 133: self._fh.flush()
SamplerFlush ==
    /\ Alive /\ pcS = "L133"
    /\ IF SinkRaises
       THEN pcS' = "dead" /\ UNCHANGED flushedLen
       ELSE pcS' = "L134" /\ flushedLen' = Len(rows)
    /\ UNCHANGED <<envVars, rows, rowInfo, fh, closes, ctrlVars, next_t, now, ts, load, v,
                   i, p, wake, ticks, stop_event, lock, _load, evars, hist>>

\* line 134: self._fh.close()
SamplerClose ==
    /\ Alive /\ pcS = "L134"
    /\ fh' = "closed"
    /\ closes' = closes + 1
    /\ pcS' = "done"
    /\ UNCHANGED <<envVars, rows, rowInfo, flushedLen, ctrlVars, next_t, now, ts, load, v,
                   i, p, wake, ticks, stop_event, lock, _load, evars, hist>>

\* ------------------------------------------------------------ environment
\* the output device fills up: from now on every write to it raises
DiskFills ==
    /\ Alive
    /\ fh = "open" /\ ~diskFull
    /\ diskFull' = TRUE
    /\ UNCHANGED <<args_levels, levels, interval, clock, sinkVars, ctrlVars, sampVars,
                   stop_event, lock, _load, evars, hist>>

\* ================================== energy_logger.py: measure_energy_to_csv
\* The wall clock of the row's timestamp is read as the monotonic clock (no
\* clock adjustment during a measurement).  The clock advances when a blocking
\* call (the sensor subprocess, time.sleep) returns.

mainIdle == <<mainVars, hist>>

\* (variant: the first sample's dt is the time since t_start)
DtSinceStart(idx, nowp, prev) == nowp - prev

\* line 72: dt = now_perf - t_prev if sample_idx > 0 else 0.0
Dt(idx, nowp, prev) == IF idx > 0 THEN nowp - prev ELSE 0

\* (variant: the power is added without the elapsed time)
AccumulateNoDt(total, vv, cc, dt) ==
    IF vv # None /\ cc # None THEN total + (Val(vv) * Val(cc)) ELSE total

\* lines 74-77: total_energy_joules += power * dt when both readings are there
Accumulate(total, vv, cc, dt) ==
    IF vv # None /\ cc # None THEN total + (Val(vv) * Val(cc)) * dt ELSE total

\* lines 74-95: the row of this tick
EnergyRow(stamp, vv, cc, dt, total) ==
    IF vv # None /\ cc # None
    THEN [timestamp |-> stamp, voltage |-> Fmt6(Val(vv)), current |-> Fmt6(Val(cc)),
          power |-> Fmt6(Val(vv) * Val(cc)), dt |-> Fmt6(dt), energy |-> Fmt6(total)]
    ELSE [timestamp |-> stamp, voltage |-> "", current |-> "", power |-> "",
          dt |-> Fmt6(dt), energy |-> Fmt6(total)]

\* lines 42-61: the accumulator and the schedule are set up from t_start =
\* time.perf_counter(); then the file is opened and the header written, which
\* takes no or one unit of time
EStart ==
    /\ pcE = "L42"
    /\ total_energy_joules' = 0
    /\ t_end' = perf + t_end
    /\ t_prev' = perf
    /\ next_tick' = perf
    /\ hist' = [hist EXCEPT !.start = perf]
    /\ sample_idx' = 0
    /\ erows' = <<>>
    /\ \E t \in {perf, perf + 1} : perf' = t
    /\ pcE' = "L63"
    /\ UNCHANGED <<mainVars, now_perf, voltage, current, interval_seconds, samples>>

\* lines 63-65: now_perf = time.perf_counter(); if now_perf >= t_end: break
ELoop ==
    /\ pcE = "L63"
    /\ now_perf' = perf
    /\ pcE' = IF perf >= t_end THEN "L106" ELSE "L68"
    /\ UNCHANGED <<mainIdle, perf, total_energy_joules, t_end, t_prev, next_tick,
                   sample_idx, voltage, current, interval_seconds, erows, samples>>

\* line 68: voltage, current = read_voltage_current(); nothing catches an
\* exception of the read, which leaves measure_energy_to_csv.  The subprocess
\* takes no or one unit of time.
ESense ==
    /\ pcE = "L68"
    /\ sample_idx < MaxSamples
    /\ \E r \in EnergyResults :
          IF r.raised
          THEN pcE' = "raised" /\ UNCHANGED <<voltage, current>>
          ELSE pcE' = "L69" /\ voltage' = r.v /\ current' = r.i
    /\ \E t \in {perf, perf + 1} : perf' = t
    /\ UNCHANGED <<mainIdle, total_energy_joules, t_end, t_prev, next_tick, sample_idx,
                   now_perf, interval_seconds, erows, samples>>

\* lines 69-100: the row is computed and written, the next tick is scheduled
ERow ==
    /\ pcE = "L69"
    /\ LET dt    == Dt(sample_idx, now_perf, t_prev)
           total == Accumulate(total_energy_joules, voltage, current, dt)
       IN /\ total_energy_joules' = total
          /\ erows' = Append(erows, EnergyRow(IsoMs(perf), voltage, current, dt, total))
          /\ samples' = Append(samples, [v |-> voltage, i |-> current, at |-> now_perf,
                                         energy |-> total])
    /\ sample_idx' = sample_idx + 1
    /\ t_prev' = now_perf
    /\ next_tick' = next_tick + interval_seconds
    /\ pcE' = "L102"
    /\ UNCHANGED <<mainIdle, perf, t_end, now_perf, voltage, current, interval_seconds>>

\* lines 102-104: sleep_for = max(0.0, next_tick - time.perf_counter());
\* if sleep_for: time.sleep(sleep_for), which returns no earlier than asked
ESleep ==
    /\ pcE = "L102"
    /\ IF next_tick - perf > 0
       THEN \E late \in {0, 1} : perf' = next_tick + late
       ELSE perf' = perf
    /\ pcE' = "L63"
    /\ UNCHANGED <<mainIdle, total_energy_joules, t_end, t_prev, next_tick, sample_idx,
                   now_perf, voltage, current, interval_seconds, erows, samples>>

\* ----------------------------------------------------------- specification
NoHist == [start |-> 0, firedAtStop |-> FALSE, rowsAtStop |-> 0]

EIdle ==
    /\ pcE = "off" /\ perf = 0 /\ total_energy_joules = 0 /\ t_end = 0 /\ t_prev = 0
    /\ next_tick = 0 /\ sample_idx = 0 /\ now_perf = 0 /\ voltage = None /\ current = None
    /\ interval_seconds = 1 /\ erows = <<>> /\ samples = <<>>

\* main() after argument parsing, before the Sampler is constructed
Setup(lists) ==
    /\ levels \in lists
    /\ args_levels \in {arg \in LevelArgs : parse_levels(arg) = Returned(levels)}
    /\ interval \in Intervals
    /\ clock = 0
    /\ diskFull = FALSE
    /\ stop_event = FALSE /\ lock = "free" /\ _load = 0
    /\ rows = <<>> /\ rowInfo = <<>> /\ flushedLen = 0 /\ fh = "unopened" /\ closes = 0
    /\ pcC = "L203" /\ cOp = "idle" /\ li = 0 /\ mark_now = 0 /\ mark_ts = "" /\ exc = "none"
    /\ exitCode = 0 /\ ctrlLog = <<>> /\ setLoadLog = <<>>
    /\ pcS = "unstarted" /\ next_t = 0 /\ now = 0 /\ ts = ""
    /\ load = [load |-> 0, readAt |-> 0]
    /\ v = None /\ i = None /\ p = None /\ wake = 0 /\ ticks = 0
    /\ hist = NoHist
    /\ EIdle

Init == Setup(LevelLists)

Next ==
    \/ CtrlConstruct \/ CtrlStart \/ CtrlFor
    \/ CtrlSetLoadAcquire \/ CtrlSetLoadStore
    \/ CtrlMarkNow \/ CtrlMarkWrite
    \/ CtrlRunCmdStart \/ CtrlRunCmdReturn \/ CtrlRunCmdFail
    \/ CtrlStopSet \/ CtrlJoinReturn \/ CtrlJoinTimeout \/ CtrlExit
    \/ SamplerBegin \/ SamplerLoop \/ SamplerWake \/ SamplerReadLoad \/ SamplerSense
    \/ SamplerWriterowEnter \/ SamplerWriterow
    \/ SamplerFlush \/ SamplerClose

\* main.py with an output device that never fails
Spec == Init /\ [][Next]_vars

\* the same, over the longer lists of levels
InitP == Setup(ProtocolLevelLists)
SpecP == InitP /\ [][Next]_vars

\* measure_energy_to_csv(duration_minutes, interval_seconds) is called; t_end
\* holds duration_minutes * 60 until line 46 adds the start time
MainIdle ==
    /\ args_levels = <<>>
    /\ levels = <<>> /\ interval = 1 /\ clock = 0 /\ diskFull = FALSE
    /\ stop_event = FALSE /\ lock = "free" /\ _load = 0
    /\ rows = <<>> /\ rowInfo = <<>> /\ flushedLen = 0 /\ fh = "unopened" /\ closes = 0
    /\ pcC = "off" /\ cOp = "idle" /\ li = 0 /\ mark_now = 0 /\ mark_ts = "" /\ exc = "none"
    /\ exitCode = 0 /\ ctrlLog = <<>> /\ setLoadLog = <<>>
    /\ pcS = "unstarted" /\ next_t = 0 /\ now = 0 /\ ts = ""
    /\ load = [load |-> 0, readAt |-> 0]
    /\ v = None /\ i = None /\ p = None /\ wake = 0 /\ ticks = 0
    /\ hist = NoHist

InitE ==
    /\ MainIdle
    /\ pcE = "L42"
    /\ perf \in {0, 1}
    /\ t_end \in 1..MaxDuration
    /\ interval_seconds \in Intervals
    /\ total_energy_joules = 0 /\ t_prev = 0 /\ next_tick = 0 /\ sample_idx = 0
    /\ now_perf = 0 /\ voltage = None /\ current = None /\ erows = <<>> /\ samples = <<>>

NextE == EStart \/ ELoop \/ ESense \/ ERow \/ ESleep

SpecE == InitE /\ [][NextE]_vars

\* The two sampling loops over more ticks: main.py without levels (the
\* markers START_PROTOCOL and END_PROTOCOL, then stop) and
\* measure_energy_to_csv
NextT ==
    \/ CtrlConstruct \/ CtrlStart \/ CtrlFor
    \/ CtrlMarkNow \/ CtrlMarkWrite
    \/ CtrlStopSet \/ CtrlJoinReturn \/ CtrlJoinTimeout \/ CtrlExit
    \/ SamplerBegin \/ SamplerLoop \/ SamplerWakeT \/ SamplerReadLoad \/ SamplerSenseT
    \/ SamplerWriterowEnter \/ SamplerWriterow
    \/ SamplerFlush \/ SamplerClose
    \/ NextE
InitT == Setup({<<>>}) \/ InitE
SpecT == InitT /\ [][NextT]_vars

\* SpecT with the Sampler thread scheduled fairly: a step of run() that can be
\* taken is taken eventually.  Nothing is assumed of the main thread.
SamplerRunT ==
    \/ SamplerBegin \/ SamplerLoop \/ SamplerWakeT \/ SamplerReadLoad \/ SamplerSenseT
    \/ SamplerWriterowEnter \/ SamplerWriterow
    \/ SamplerFlush \/ SamplerClose
SpecTF == InitT /\ [][NextT]_vars /\ WF_vars(SamplerRunT)

\* main() at line 200, about to parse the --levels string
InitL ==
    /\ args_levels \in ArgStrings
    /\ levels = <<>>
    /\ interval \in Intervals
    /\ clock = 0
    /\ diskFull = FALSE
    /\ stop_event = FALSE /\ lock = "free" /\ _load = 0
    /\ rows = <<>> /\ rowInfo = <<>> /\ flushedLen = 0 /\ fh = "unopened" /\ closes = 0
    /\ pcC = "L200" /\ cOp = "idle" /\ li = 0 /\ mark_now = 0 /\ mark_ts = "" /\ exc = "none"
    /\ exitCode = 0 /\ ctrlLog = <<>> /\ setLoadLog = <<>>
    /\ pcS = "unstarted" /\ next_t = 0 /\ now = 0 /\ ts = ""
    /\ load = [load |-> 0, readAt |-> 0]
    /\ v = None /\ i = None /\ p = None /\ wake = 0 /\ ticks = 0
    /\ hist = NoHist
    /\ EIdle
NextL == CtrlParseLevels
SpecL == InitL /\ [][NextL]_vars

\* main.py with an output device that may fill up at any moment
InitIO == Setup(LevelLists)
NextIO == Next \/ DiskFills
SpecIO == InitIO /\ [][NextIO]_vars

\* ==================================================================== claims
\* the rows of the file after the header
Body == IF rows = <<>> THEN <<>> ELSE Tail(rows)
IsMarkerRow(r) == r.marker # ""
IsDataRow(r) == r.marker = ""
\* the marker texts of the file, in file order
MarkerTexts == [k \in 1..Len(SelectSeq(Body, IsMarkerRow)) |->
                   SelectSeq(Body, IsMarkerRow)[k].marker]
\* the positions in rows of the data rows
DataAt == {k \in 2..Len(rows) : IsDataRow(rows[k])}

LgFailure == Call("run_cmd", "failed")
LgFailed == \E k \in 1..Len(ctrlLog) : ctrlLog[k] = LgFailure

\* C1: mark() and the Sampler's row writing exclude each other: the main
\* thread is never inside mark's write (writerow and flush, lines 85-86)
\* while the Sampler thread is inside its writerow (line 119).
C1_WritesExcludeEachOther == ~(cOp = "writerow" /\ pcS = "L119w")

\* C2: once stop() has returned, the sink has been flushed and closed exactly
\* once, whether the thread ended in time or not.
C2_ClosedOnceAfterStop ==
    pcC = "L227" => (fh = "closed" /\ closes = 1 /\ flushedLen = Len(rows))

\* C3: when a Load Generator call fails, main completes no further set_load,
\* mark or run_cmd, calls stop() next, and the process ends with a non-zero
\* status.
C3_FailureAbortsToTeardown ==
    \A k \in 1..Len(ctrlLog) :
        ctrlLog[k] = LgFailure =>
            /\ pcC \in {"L226", "L227", "exited"}
            /\ cOp \in {"idle", "join"}
            /\ \A j \in (k + 1)..Len(ctrlLog) : j = k + 1 /\ ctrlLog[j].op = "stop"
            /\ pcC \in {"L227", "exited"} => Len(ctrlLog) = k + 1
            /\ pcC = "exited" => exitCode # 0

\* C3 witness: a run over two levels whose Load Generator failed during the
\* first level has ended, after stop().
C3_Witness ==
    /\ pcC = "exited" /\ LgFailed /\ Len(levels) = 2 /\ li = 1
    /\ ctrlLog[Len(ctrlLog)].op = "stop"

\* C4 as claimed: every run that has ended wrote START_PROTOCOL as its first
\* marker and END_PROTOCOL as its last one, also when a Load Generator call
\* failed.
C4_ClaimedStartAndEndMarkers ==
    pcC = "exited" =>
        /\ Len(MarkerTexts) >= 2
        /\ MarkerTexts[1] = "START_PROTOCOL"
        /\ MarkerTexts[Len(MarkerTexts)] = "END_PROTOCOL"

\* C4: every run that has ended wrote START_PROTOCOL as its first marker; it
\* wrote END_PROTOCOL, once and as its last marker, when no Load Generator
\* call failed, and no END_PROTOCOL at all when one failed.
C4_StartAndEndMarkers ==
    pcC = "exited" =>
        /\ Len(MarkerTexts) >= 1
        /\ MarkerTexts[1] = "START_PROTOCOL"
        /\ \A k \in 2..Len(MarkerTexts) : MarkerTexts[k] # "START_PROTOCOL"
        /\ ~LgFailed =>
              /\ MarkerTexts[Len(MarkerTexts)] = "END_PROTOCOL"
              /\ \A k \in 1..(Len(MarkerTexts) - 1) : MarkerTexts[k] # "END_PROTOCOL"
        /\ LgFailed =>
              \A k \in 1..Len(MarkerTexts) : MarkerTexts[k] # "END_PROTOCOL"

\* C4 witness: a run over two levels has ended after the Load Generator failed
\* in the stress phase of the first; its last marker is STRESS_0_BEGIN.
C4_Witness ==
    /\ pcC = "exited" /\ LgFailed /\ levels = <<0, 50>>
    /\ MarkerTexts[Len(MarkerTexts)] = "STRESS_0_BEGIN"

\* the four markers of one level, as the claim names them and as main does
ClaimedLevelMarkers(lvl) ==
    << "REST_BEGIN_" \o ToString(lvl), "REST_END_" \o ToString(lvl),
       "STRESS_" \o ToString(lvl) \o "_BEGIN", "STRESS_" \o ToString(lvl) \o "_END" >>
WrittenLevelMarkers(lvl) ==
    << "REST_BEGIN_level_" \o ToString(lvl), "REST_END_level_" \o ToString(lvl),
       "STRESS_" \o ToString(lvl) \o "_BEGIN", "STRESS_" \o ToString(lvl) \o "_END" >>

\* the markers from level k on, with the names of the claim or of main
RECURSIVE Protocol(_, _, _)
Protocol(ls, k, asClaimed) ==
    IF k > Len(ls) THEN <<"END_PROTOCOL">>
    ELSE (IF asClaimed THEN ClaimedLevelMarkers(ls[k]) ELSE WrittenLevelMarkers(ls[k]))
         \o Protocol(ls, k + 1, asClaimed)

\* C5 as claimed: a run without Load Generator failure leaves exactly the
\* markers START_PROTOCOL, then REST_BEGIN_L, REST_END_L, STRESS_L_BEGIN,
\* STRESS_L_END per level, then END_PROTOCOL.
C5_ClaimedMarkers ==
    (pcC = "exited" /\ ~LgFailed) =>
        MarkerTexts = <<"START_PROTOCOL">> \o Protocol(levels, 1, TRUE)

\* C5: a run without Load Generator failure leaves exactly the 4n+2 markers
\* START_PROTOCOL, then REST_BEGIN_level_L, REST_END_level_L, STRESS_L_BEGIN,
\* STRESS_L_END for each level L in the order given, then END_PROTOCOL; for
\* levels = [0, 50] the ten markers written out below.
C5_Markers ==
    (pcC = "exited" /\ ~LgFailed) =>
        /\ MarkerTexts = <<"START_PROTOCOL">> \o Protocol(levels, 1, FALSE)
        /\ Len(MarkerTexts) = 4 * Len(levels) + 2
        /\ levels = <<0, 50>> =>
             MarkerTexts = << "START_PROTOCOL",
                              "REST_BEGIN_level_0", "REST_END_level_0",
                              "STRESS_0_BEGIN", "STRESS_0_END",
                              "REST_BEGIN_level_50", "REST_END_level_50",
                              "STRESS_50_BEGIN", "STRESS_50_END",
                              "END_PROTOCOL" >>

\* C5 witness: the run over [0, 50] has ended without failure, with data rows
\* among its markers.
C5_Witness ==
    /\ pcC = "exited" /\ ~LgFailed /\ levels = <<0, 50>>
    /\ Len(MarkerTexts) = 10 /\ DataAt # {}

\* C6 as claimed: a data row written after a set_load(p) call has returned
\* and before the next one begins has load_percent = p.
C6_ClaimedLoadOfRowsWritten ==
    \A k \in DataAt :
        (rowInfo[k].writtenAt >= 1 /\ ~rowInfo[k].busy) =>
            rows[k].load_percent = ToString(setLoadLog[rowInfo[k].writtenAt])

\* C6: a data row whose tick read the load annotation (line 106) after a
\* set_load(p) call had returned and before the next one returned has
\* load_percent = p; a tick that read it before any set_load has 0.
C6_LoadOfRowsRead ==
    \A k \in DataAt :
        rows[k].load_percent =
            IF rowInfo[k].readAt >= 1 THEN ToString(setLoadLog[rowInfo[k].readAt])
            ELSE "0"

\* C6 witness: a data row written after set_load(50) returned and after the
\* STRESS_50_BEGIN marker, whose tick had read the load before that call.
C6_Witness ==
    \E k \in DataAt :
        /\ rowInfo[k].readAt >= 1
        /\ rowInfo[k].writtenAt > rowInfo[k].readAt
        /\ setLoadLog[rowInfo[k].writtenAt] = 50
        /\ rows[k].load_percent = "0"
        /\ \E j \in 2..(k - 1) : rows[j].marker = "STRESS_50_BEGIN"

\* the sum of power * dt over the valid ones of the first k samples, dt being
\* the time since the sample before (0 for the first)
RECURSIVE EnergySum(_)
EnergySum(k) ==
    IF k = 0 THEN 0
    ELSE EnergySum(k - 1) +
         IF samples[k].v # None /\ samples[k].i # None /\ k > 1
         THEN Val(samples[k].v) * Val(samples[k].i) * (samples[k].at - samples[k - 1].at)
         ELSE 0

\* C7: the cumulative energy written in each row of measure_energy_to_csv is
\* the sum of power_i * dt_i over the ticks up to that row whose voltage and
\* current were both present, dt_i being the monotonic time since the tick
\* before, valid or not.
C7_EnergyIsSum ==
    /\ Len(erows) = Len(samples)
    /\ \A k \in 1..Len(erows) : erows[k].energy = Fmt6(EnergySum(k))

\* C7 witness: three rows, the second without a reading, the third with one
\* taken later than the second, and an accumulator that moved.
C7_Witness ==
    /\ Len(erows) = 3
    /\ samples[2].v = None
    /\ samples[3].v # None /\ samples[3].i # None
    /\ samples[3].at > samples[2].at /\ samples[2].at > samples[1].at
    /\ erows[3].energy # erows[1].energy

\* C8: the cumulative energy of each row is at least that of the row before.
C8_EnergyNonDecreasing ==
    \A k \in 1..(Len(samples) - 1) : samples[k + 1].energy >= samples[k].energy

\* C9: a data row of a tick whose voltage or current is missing has its
\* voltage, current and power fields all empty.
C9_MissingReadingBlanksAll ==
    \A k \in DataAt :
        (rows[k].voltage_v = "" \/ rows[k].current_a = "") =>
            (rows[k].voltage_v = "" /\ rows[k].current_a = "" /\ rows[k].power_w = "")

\* C10: a sensor read that raises never ends the duration-bounded loop.
C10_RaisingReadKeepsLoop == pcE # "raised"

\* C11: every row after the header is a data row with an empty marker or a
\* marker row with empty load_percent, voltage_v, current_a and power_w and a
\* non-empty marker; a row written by mark() is of the second kind and a row
\* written by a tick of the first.
C11_RowKinds ==
    \A k \in 2..Len(rows) :
        /\ rowInfo[k].by \in {"ctrl", "sampler"}
        /\ rowInfo[k].by = "ctrl" =>
              /\ rows[k].marker # ""
              /\ rows[k].load_percent = "" /\ rows[k].voltage_v = ""
              /\ rows[k].current_a = "" /\ rows[k].power_w = ""
        /\ rowInfo[k].by = "sampler" => rows[k].marker = ""

\* C11 witness: the file holds a marker row and a data row with a reading.
C11_Witness ==
    /\ \E k \in 2..Len(rows) : rowInfo[k].by = "ctrl"
    /\ \E k \in 2..Len(rows) : rowInfo[k].by = "sampler" /\ rows[k].power_w # ""

\* C12: parse_levels returns a non-empty list or raises: once line 200 has
\* run, main has either left with an error or holds at least one level; and
\* "0:5", the range without its step, raises.
C12_ParseLevelsNeverEmpty ==
    pcC # "L200" =>
        /\ pcC = "exited" \/ levels # <<>>
        /\ args_levels = <<"0", ":", "5">> => pcC = "exited"

StopReturned == \E k \in 1..Len(ctrlLog) : ctrlLog[k].op = "stop"

\* C13: when main called stop() before the Sampler thread had begun a tick,
\* stop() returns with the file holding the header and whole rows, flushed and
\* closed.
C13_StopBeforeFirstTick ==
    (StopReturned /\ ~hist.firedAtStop) =>
        /\ rows[1] = HeaderRow
        /\ flushedLen = Len(rows)
        /\ fh = "closed" /\ closes = 1

\* C14: a Sampler thread ended by a failed write has closed the sink, and main
\* then does not end with status 0.
C14_WriteFailureSurfaces ==
    pcS = "dead" =>
        /\ fh = "closed"
        /\ pcC = "exited" => exitCode # 0

\* the number a row's epoch_s field shows
EpochOf(r) == CHOOSE n \in 0..(MaxClock + MaxClockT + 1) : Fmt3(n) = r.epoch_s

\* C15: when mark() takes its time (line 82), no data row in the file shows a
\* later time; and the marker row mark() then writes shows the time it took.
C15_MarkNotBeforeLastSample ==
    [][ /\ (cOp = "idle" /\ cOp' = "writerow") =>
              \A k \in DataAt : EpochOf(rows[k]) <= mark_now'
        /\ (cOp = "writerow" /\ Len(rows') > Len(rows) /\ rows'[Len(rows')].marker # "") =>
              rows'[Len(rows')].epoch_s = Fmt3(mark_now) ]_vars

\* C15 witness: mark() has taken its time while the file holds a data row
\* whose tick fired after the start of the run.
C15_Witness ==
    /\ cOp = "writerow"
    /\ \E k \in DataAt : EpochOf(rows[k]) >= 1 /\ EpochOf(rows[k]) <= mark_now

\* the data rows of the file, in file order
DataRows == SelectSeq(Body, IsDataRow)

\* C16: in both loops the schedule after k completed ticks is start + k *
\* interval; the Sampler sleeps only while the time is below next_t, and then
\* until next_t; a tick fires no earlier than scheduled.
C16_NoDrift ==
    /\ pcS \notin {"unstarted", "L95"} =>
          /\ next_t = hist.start + Len(DataRows) * interval
          /\ pcS = "L100" => (now < next_t /\ wake = next_t)
          /\ pcS \in {"L102", "L110", "L119", "L119w"} => clock >= next_t
    /\ pcE \notin {"off", "L42"} =>
          /\ next_tick = hist.start + sample_idx * interval_seconds
          /\ pcE \in {"L63", "L68", "L69"} => perf >= next_tick
          /\ pcE \in {"L68", "L69"} => now_perf >= next_tick

\* C16 witness: the second tick of the Sampler fired late (at 2, scheduled at
\* 1) and the third is scheduled at start + 2.
C16_Witness ==
    /\ Len(DataRows) = 2
    /\ DataRows[2].timestamp_iso = IsoMs(2)
    /\ hist.start = 0 /\ next_t = 2

\* C17: the epoch_s of the j-th data row is at least the time that tick was
\* scheduled at, and is the instant its timestamp_iso shows.
C17_RowTimeIsFireTime ==
    \A j \in 1..Len(DataRows) :
        /\ EpochOf(DataRows[j]) >= hist.start + (j - 1) * interval
        /\ DataRows[j].timestamp_iso = IsoMs(EpochOf(DataRows[j]))

\* C18: the first row of measure_energy_to_csv has dt = 0 and energy 0; the dt
\* of every later row is the time between its fire time and that of the row
\* before.
C18_FirstDtZero ==
    /\ Len(erows) = Len(samples)
    /\ Len(erows) >= 1 => (erows[1].dt = Fmt6(0) /\ erows[1].energy = Fmt6(0))
    /\ \A k \in 2..Len(erows) : erows[k].dt = Fmt6(samples[k].at - samples[k - 1].at)

\* C18 witness: the first sample fired after t_start with a non-zero power,
\* and a second one fired later.
C18_Witness ==
    /\ Len(erows) >= 2
    /\ samples[1].at > hist.start
    /\ samples[1].v # None /\ samples[1].i # None
    /\ samples[2].at > samples[1].at

\* the data rows written since the stop event was set
RowsSinceStop == {k \in DataAt : k > hist.rowsAtStop}
SamplerClosed == pcS = "done" /\ fh = "closed" /\ flushedLen = Len(rows)
\* the blocking call the thread is in does not return
SamplerStuck ==
    \/ pcS = "L110" /\ ticks >= MaxTicksT
    \/ pcS = "L100" /\ wake > MaxClockT
\* the process ended while the thread was in a blocking call
EndedWhileBlocked == ~Alive /\ pcS \in {"L100", "L110"}

C20_NoWriteAfterClose ==
    /\ cOp = "writerow" => fh = "open"
    /\ pcS \in {"L119", "L119w", "L133", "L134"} => fh = "open"
    /\ fh = "closed" =>
          /\ stop_event /\ pcS = "done"
          /\ pcC \in {"L226", "L227", "exited"} /\ cOp \in {"join", "idle"}

\* C20 witness: a run over one level has ended with the sink closed, the
\* END_PROTOCOL marker and a data row in the file.
C20_Witness ==
    /\ pcC = "exited" /\ fh = "closed" /\ levels = <<50>>
    /\ DataAt # {}
    /\ MarkerTexts[Len(MarkerTexts)] = "END_PROTOCOL"

====
